---- MODULE Spec2Model ----
(***************************************************************************)
(* Model of the region interest accessor (src/src/region_interest.rs):     *)
(* RegionInterest::new, with_filter, get and get_for over a Client, the    *)
(* decoding of the wire payload into InterestForRegion entries, and the    *)
(* request pipeline (Client::build, Query::send_request) they rely on.     *)
(***************************************************************************)
EXTENDS Integers, Sequences, FiniteSets, TLC

\* ------------------------------------------------------------------ bounds

\* Longest registered keyword list.
MaxKeywords == 2
\* Longest value / hasData / formattedValue array of a payload entry.
MaxBuckets == 1
\* Most get()/get_for() calls made on one RegionInterest.
MaxCalls == 2

\* ------------------------------------------------------------------ inputs

\* Keywords a client may register.
Registrable == {"PS4", "XBOX"}
\* Keywords a caller may pass to get_for: "WII" is never registered.
Asked == Registrable \cup {"WII"}
\* Country::ALL and one ordinary country.
Countries == {"ALL", "US"}
\* Scales a caller may pass to with_filter.
Scales == {"REGION", "CITY", "COUNTRY"}
\* Place names the service puts in an entry.
GeoNames == {"Texas", "Ohio"}

KeywordLists == UNION {[1..n -> Registrable] : n \in 1..MaxKeywords}

Range(s) == {s[i] : i \in 1..Len(s)}

\* ------------------------------------------------------------------ wire payload

\* One geoMapData entry as the service sends it, camelCase names: an entry
\* named name whose value, hasData and formattedValue arrays have the
\* lengths nv, nh and nf.
WireEntry(name, nv, nh, nf) ==
  [coordinates |-> [lat |-> 0, lng |-> 0],
   formattedValue |-> [i \in 1..nf |-> "100"],
   geoName |-> name,
   hasData |-> [i \in 1..nh |-> TRUE],
   maxValueIndex |-> 0,
   value |-> [i \in 1..nv |-> 100]]

\* One slot of the response sequence as the service sends it.
WireSlot(name, nv, nh, nf) ==
  [default |-> [geoMapData |-> <<WireEntry(name, nv, nh, nf)>>]]

\* The response sequences the service may answer a client of n keywords
\* with: 1 + n slots, [aggregate, keyword 0, keyword 1, ...].
ServerResponses(n) ==
  {[j \in 1..(1 + n) |-> WireSlot(names[j], nv, nh, nf)] :
     names \in [1..(1 + n) -> GeoNames],
     nv \in 0..MaxBuckets, nh \in 0..MaxBuckets, nf \in 0..MaxBuckets}

\* ------------------------------------------------------------------ decoding

\* A decoder that cuts the three arrays to their common length.
DecodeEntryZip(w) ==
  LET Min(a, b) == IF a < b THEN a ELSE b
      n == Min(Len(w.value), Min(Len(w.hasData), Len(w.formattedValue)))
  IN [coordinates |-> w.coordinates,
      formatted_value |-> SubSeq(w.formattedValue, 1, n),
      geo_name |-> w.geoName,
      has_data |-> SubSeq(w.hasData, 1, n),
      max_value_index |-> w.maxValueIndex,
      value |-> SubSeq(w.value, 1, n)]

\* Deserialize for InterestForRegion: the camelCase wire names become the
\* struct's fields; every array is taken as sent.
DecodeEntry(w) ==
  [coordinates |-> w.coordinates,
   formatted_value |-> w.formattedValue,
   geo_name |-> w.geoName,
   has_data |-> w.hasData,
   max_value_index |-> w.maxValueIndex,
   value |-> w.value]

\* Deserialize for GeoMapData: geoMapData becomes geo_map_data.
DecodeGeoMapData(w) ==
  [geo_map_data |-> [j \in 1..Len(w.geoMapData) |-> DecodeEntry(w.geoMapData[j])]]

\* Deserialize for RegionInterestResponse.
DecodeResponse(w) == [default |-> DecodeGeoMapData(w.default)]

\* ------------------------------------------------------------------ client

\* Client::new(keywords, country): not built yet.
Client(keywords, country) ==
  [keywords |-> keywords, country |-> country, built |-> FALSE]

\* Client::build().
build(c) == [c EXCEPT !.built = TRUE]

\* ------------------------------------------------------------------ RegionInterest

\* new() with the two resolutions exchanged.
new_inverted(c) ==
  [client |-> c,
   resolution |-> IF c.country = "ALL" THEN "REGION" ELSE "COUNTRY"]

\* impl Default for RegionInterest, c being the value of Client::default():
\* "REGION" whatever the client's country.
default(c) == [client |-> c, resolution |-> "REGION"]

\* RegionInterest::new.
new(c) ==
  [client |-> c,
   resolution |-> IF c.country = "ALL" THEN "COUNTRY" ELSE "REGION"]

\* with_filter() that drops the assignment.
with_filter_noop(self, scale) == self

\* RegionInterest::with_filter.
with_filter(self, scale) == [self EXCEPT !.resolution = scale]

\* Option<usize>.
None == [some |-> FALSE, k |-> 0]
Some(k) == [some |-> TRUE, k |-> k]

RECURSIVE scan(_, _, _)
\* Iterator::position from zero-based index i on: the first match.
scan(keywords, keyword, i) ==
  IF i >= Len(keywords) THEN None
  ELSE IF keywords[i + 1] = keyword THEN Some(i)
  ELSE scan(keywords, keyword, i + 1)

RECURSIVE rscan(_, _, _)
\* Iterator::rposition from zero-based index i down: the last match.
rscan(keywords, keyword, i) ==
  IF i < 0 THEN None
  ELSE IF keywords[i + 1] = keyword THEN Some(i)
  ELSE rscan(keywords, keyword, i - 1)

rposition(keywords, keyword) == rscan(keywords, keyword, Len(keywords) - 1)

\* self.client.keywords.keywords.iter().position(|&x| x == keyword)
position(keywords, keyword) == scan(keywords, keyword, 0)

\* Vec::remove(index): the element at the zero-based index, or a panic
\* when the index is out of bounds.
remove(vec, index) ==
  IF index < Len(vec)
  THEN [ok |-> TRUE, value |-> vec[index + 1]]
  ELSE [ok |-> FALSE, value |-> DecodeResponse(WireSlot("", 0, 0, 0))]

\* Whether the service accepts the request of self: the client was built,
\* and the resolution is not "REGION" over all countries.
RequestValid(self) ==
  /\ self.client.built
  /\ ~(self.client.country = "ALL" /\ self.resolution = "REGION")

\* Query::send_request with the service answering wire: the decoded slots,
\* or a panic.
send_request(self, wire) ==
  IF RequestValid(self)
  THEN [ok |-> TRUE, responses |-> [j \in 1..Len(wire) |-> DecodeResponse(wire[j])]]
  ELSE [ok |-> FALSE, responses |-> <<>>]

\* What a call returns: its outcome, the panic's error, the data returned,
\* the send_request() invocations it made and the payload it received.
Returned(data, wire) ==
  [outcome |-> "ok", error |-> "none", data |-> data, sent |-> 1, raw |-> wire]
Panicked(error, sent) ==
  [outcome |-> "panic", error |-> error, data |-> <<>>, sent |-> sent, raw |-> <<>>]

\* The slot at the zero-based index of the responses of one send_request().
slot(self, index, wire) ==
  LET r == send_request(self, wire)
  IN IF ~r.ok THEN Panicked("RequestFailed", 1)
     ELSE LET x == remove(r.responses, index)
          IN IF x.ok THEN Returned(x.value.default.geo_map_data, wire)
             ELSE Panicked("IndexOutOfBounds", 1)

\* get() that takes the slot after the aggregate entry.
get_skip_aggregate(self, wire) == slot(self, 1, wire)

\* get() that returns no entries when the request fails.
get_swallow(self, wire) ==
  LET r == slot(self, 0, wire)
  IN IF r.outcome = "ok" THEN r ELSE Returned(<<>>, <<>>)

\* get() that sends the request twice.
get_retry(self, wire) ==
  LET r == slot(self, 0, wire)
  IN [r EXCEPT !.sent = 2]

\* RegionInterest::get.
get(self, wire) == slot(self, 0, wire)

\* get_for() that falls back to keyword 0 when the keyword is not found.
get_for_default_slot(self, keyword, wire) ==
  LET index == position(self.client.keywords, keyword)
  IN slot(self, (IF index.some THEN index.k ELSE 0) + 1, wire)

\* get_for() that sends the request before it looks the keyword up.
get_for_request_first(self, keyword, wire) ==
  LET index == position(self.client.keywords, keyword)
  IN IF ~index.some THEN Panicked("KeywordNotSet", 1)
     ELSE slot(self, index.k + 1, wire)

\* RegionInterest::get_for.
get_for(self, keyword, wire) ==
  LET index == position(self.client.keywords, keyword)
  IN IF ~index.some THEN Panicked("KeywordNotSet", 0)
     ELSE LET keyword_index == index.k
              response_index == keyword_index + 1
          IN slot(self, response_index, wire)

\* ------------------------------------------------------------------ state

VARIABLES
  server,    \* the payload the service answers this client's request with,
             \* the same for every call of the run
  client,    \* the Client as constructed, by Client::new or Client::default
  ri,        \* the RegionInterest
  pc,        \* "client": no RegionInterest yet; "ri"; "panicked"
  scale,     \* the scale of the latest with_filter, "none" before the first
  op,        \* the latest operation and its argument
  outcome,   \* of the latest operation: "none", "ok" or "panic"
  error,     \* the panic's error
  result,    \* the data the latest call returned
  response,  \* the payload the latest call received
  calls,     \* get()/get_for() calls made
  requests   \* send_request() invocations made

vars == <<server, client, ri, pc, scale, op, outcome, error, result, response, calls, requests>>

Op(name, arg) == [name |-> name, arg |-> arg]

\* No RegionInterest yet.
NoRI == [client |-> Client(<<>>, ""), resolution |-> ""]

Init ==
  /\ client \in {Client(k, c) : k \in KeywordLists, c \in Countries}
  /\ server \in ServerResponses(Len(client.keywords))
  /\ ri = NoRI
  /\ pc = "client"
  /\ scale = "none"
  /\ op = Op("Client::new", "")
  /\ outcome = "none"
  /\ error = "none"
  /\ result = <<>>
  /\ response = <<>>
  /\ calls = 0
  /\ requests = 0

\* let client = client.build();
Build ==
  /\ pc = "client"
  /\ ~client.built
  /\ client' = build(client)
  /\ op' = Op("build", "")
  /\ UNCHANGED <<server, ri, pc, scale, outcome, error, result, response, calls, requests>>

\* let region_interest = RegionInterest::new(client);
New ==
  /\ pc = "client"
  /\ ri' = new(client)
  /\ pc' = "ri"
  /\ op' = Op("new", "")
  /\ UNCHANGED <<server, client, scale, outcome, error, result, response, calls, requests>>

\* let region_interest = RegionInterest::default();
Default ==
  /\ pc = "client"
  /\ ~client.built
  /\ ri' = default(client)
  /\ pc' = "ri"
  /\ op' = Op("default", "")
  /\ UNCHANGED <<server, client, scale, outcome, error, result, response, calls, requests>>

\* region_interest.client = region_interest.client.build();
\* client is a pub field of RegionInterest.
BuildField ==
  /\ pc = "ri"
  /\ ~ri.client.built
  /\ ri' = [ri EXCEPT !.client = build(@)]
  /\ op' = Op("build", "")
  /\ UNCHANGED <<server, client, pc, scale, outcome, error, result, response, calls, requests>>

\* let region_interest = region_interest.with_filter(s);
WithFilter ==
  /\ pc = "ri"
  /\ \E s \in Scales :
       /\ ri' = with_filter(ri, s)
       /\ scale' = s
       /\ op' = Op("with_filter", s)
  /\ outcome' = "none"
  /\ error' = "none"
  /\ result' = <<>>
  /\ response' = <<>>
  /\ UNCHANGED <<server, client, pc, calls, requests>>

\* The effect of a call that returned r.
Call(name, arg, r) ==
  /\ op' = Op(name, arg)
  /\ outcome' = r.outcome
  /\ error' = r.error
  /\ result' = r.data
  /\ response' = r.raw
  /\ calls' = calls + 1
  /\ requests' = requests + r.sent
  /\ pc' = IF r.outcome = "panic" THEN "panicked" ELSE "ri"
  /\ UNCHANGED <<server, client, ri, scale>>

\* region_interest.get()
Get ==
  /\ pc = "ri"
  /\ calls < MaxCalls
  /\ Call("get", "", get(ri, server))

\* region_interest.get_for(keyword)
GetFor ==
  /\ pc = "ri"
  /\ calls < MaxCalls
  /\ \E keyword \in Asked :
       Call("get_for", keyword, get_for(ri, keyword, server))

Next == Build \/ New \/ Default \/ BuildField \/ WithFilter \/ Get \/ GetFor

Spec == Init /\ [][Next]_vars

\* ------------------------------------------------------------------ properties

\* The registered keyword list.
K == ri.client.keywords

IsCall == op.name \in {"get", "get_for"}

\* The latest call reached the request: get(), or get_for of a registered keyword.
MadeRequest == op.name = "get" \/ (op.name = "get_for" /\ op.arg \in Range(K))

\* The decoded geo map data of the one-based slot j of a payload.
Data(wire, j) == DecodeResponse(wire[j]).default.geo_map_data

\* The zero-based positions of keyword k in the keyword list.
Positions(k) == {i \in 0..(Len(K) - 1) : K[i + 1] = k}

\* The zero-based position of the first occurrence of keyword k.
FirstAt(k) == CHOOSE i \in Positions(k) : \A j \in Positions(k) : i <= j

\* The geo map data of the slots of a payload, one after the other.
RECURSIVE Combined(_)
Combined(wire) ==
  IF wire = <<>> THEN <<>> ELSE Data(wire, 1) \o Combined(Tail(wire))

SameLengths(e) ==
  /\ Len(e.value) = Len(e.has_data)
  /\ Len(e.value) = Len(e.formatted_value)

\* C1 as stated: on a built client whose request is answered, get_for(k)
\* succeeds and returns the data of slot i + 1 for every position i at which k
\* occurs in the keyword list.
C1_SlotOfEveryPosition ==
  (op.name = "get_for" /\ RequestValid(ri)) =>
    \A i \in Positions(op.arg) :
      /\ outcome = "ok"
      /\ Len(response) = 1 + Len(K)
      /\ result = Data(response, i + 2)

\* C1 amended: on a built client whose request is answered, get_for(k) of a
\* registered keyword k succeeds and returns the data of slot i + 1, where i
\* is the position of the first occurrence of k in the keyword list; never
\* slot 0.
C1_SlotOfFirstPosition ==
  (op.name = "get_for" /\ RequestValid(ri) /\ op.arg \in Range(K)) =>
    /\ outcome = "ok"
    /\ Len(response) = 1 + Len(K)
    /\ response = server
    /\ result = Data(server, FirstAt(op.arg) + 2)

\* get_for of a keyword registered twice returned the slot of the first
\* occurrence, which differs from the slot of the second.
C1_Witness ==
  /\ op.name = "get_for"
  /\ outcome = "ok"
  /\ Cardinality(Positions(op.arg)) > 1
  /\ result = Data(response, FirstAt(op.arg) + 2)
  /\ \E i \in Positions(op.arg) : result # Data(response, i + 2)

\* C2: get_for of a keyword that is not registered panics with KeywordNotSet
\* and returns no data, whatever the country, the resolution and the payload.
C2_UnregisteredFails ==
  (op.name = "get_for" /\ op.arg \notin Range(K)) =>
    /\ outcome = "panic"
    /\ error = "KeywordNotSet"
    /\ result = <<>>
    /\ pc = "panicked"

\* get_for of an unregistered keyword on a client whose request would have
\* been answered.
C2_Witness ==
  /\ op.name = "get_for"
  /\ op.arg \notin Range(K)
  /\ RequestValid(ri)
  /\ error = "KeywordNotSet"

\* C3 as stated: get() discards the first element of the response sequence
\* and returns the data of the remaining, per-keyword slots.
C3_DiscardsAggregate ==
  (op.name = "get" /\ outcome = "ok") => result = Combined(Tail(response))

\* C3 amended: get() issues the request and returns the geo map data of the
\* first element of the response sequence, the aggregate entry; the
\* per-keyword slots are the ones dropped.
C3_ReturnsAggregate ==
  (op.name = "get" /\ RequestValid(ri)) =>
    /\ outcome = "ok"
    /\ response = server
    /\ result = Data(server, 1)

\* get() returned the aggregate entry, which differs from the slot of
\* keyword 0.
C3_Witness ==
  /\ op.name = "get"
  /\ outcome = "ok"
  /\ result = Data(response, 1)
  /\ result # Data(response, 2)

\* C4: on a built client over Country::ALL a request made after
\* with_filter("REGION") fails, a request made after with_filter("COUNTRY") or
\* with no with_filter at all succeeds, and the last two return the same
\* result. RegionInterest::default() over such a client breaks it: its
\* resolution is "REGION" with no with_filter made.
C4_AllCountriesFilter ==
  (ri.client.country = "ALL" /\ ri.client.built /\ MadeRequest) =>
    /\ scale = "REGION" => (outcome = "panic" /\ error = "RequestFailed")
    /\ scale \in {"COUNTRY", "none"} => outcome = "ok"
    /\ scale = "none" =>
         /\ get(with_filter(ri, "COUNTRY"), server) = get(ri, server)
         /\ \A k \in Asked :
              get_for(with_filter(ri, "COUNTRY"), k, server) = get_for(ri, k, server)

\* C5: RegionInterest::new(c) has the resolution "COUNTRY" exactly when
\* c.country is Country::ALL and "REGION" for every other country, and wraps c
\* unchanged.
C5_NewResolution ==
  op.name = "new" =>
    /\ ri.resolution = "COUNTRY" <=> client.country = "ALL"
    /\ client.country # "ALL" => ri.resolution = "REGION"
    /\ ri.client = client

\* new() of a client over Country::ALL.
C5_Witness ==
  /\ op.name = "new"
  /\ client.country = "ALL"
  /\ ri.resolution = "COUNTRY"

\* C6: get() and get_for() on a client that was never built panic and return
\* no data, for every keyword list and every country.
C6_UnbuiltPanics ==
  (IsCall /\ ~ri.client.built) =>
    /\ outcome = "panic"
    /\ result = <<>>
    /\ pc = "panicked"

\* get() on a client that was never built panicked in the request.
C6_Witness ==
  /\ op.name = "get"
  /\ ~ri.client.built
  /\ outcome = "panic"
  /\ error = "RequestFailed"

\* C7 as stated: in every entry get() or get_for() returns, the value,
\* has-data and formatted-value arrays have the same length.
C7_SameLengths ==
  (IsCall /\ outcome = "ok") => \A j \in 1..Len(result) : SameLengths(result[j])

\* C7 amended: every entry get() or get_for() returns holds the value, hasData
\* and formattedValue arrays of the payload entry it was decoded from,
\* unchanged: decoding checks no lengths, and the three arrays have the same
\* length exactly when the payload's have.
C7_ArraysAsSent ==
  (IsCall /\ outcome = "ok") =>
    LET used == IF op.name = "get" THEN 1 ELSE FirstAt(op.arg) + 2
        sent == response[used].default.geoMapData
    IN /\ Len(result) = Len(sent)
       /\ \A j \in 1..Len(result) :
            /\ result[j].value = sent[j].value
            /\ result[j].has_data = sent[j].hasData
            /\ result[j].formatted_value = sent[j].formattedValue
            /\ SameLengths(result[j]) <=>
                 /\ Len(sent[j].value) = Len(sent[j].hasData)
                 /\ Len(sent[j].value) = Len(sent[j].formattedValue)

\* A call returned an entry whose arrays differ in length, as the payload's do.
C7_Witness ==
  /\ IsCall
  /\ outcome = "ok"
  /\ Len(result) > 0
  /\ ~SameLengths(result[1])
  /\ result[1].value = response[IF op.name = "get" THEN 1 ELSE FirstAt(op.arg) + 2]
                         .default.geoMapData[1].value

\* C8: with_filter(scale) sets the resolution to scale, whatever it was
\* before, validates nothing, makes no request and leaves the wrapped client
\* unchanged.
C8_WithFilterSets ==
  [][op'.name = "with_filter" =>
       /\ ri'.resolution = op'.arg
       /\ ri'.client = ri.client
       /\ client' = client
       /\ requests' = requests
       /\ calls' = calls
       /\ outcome' = "none"
       /\ pc' = "ri"]_vars

\* with_filter("REGION") over Country::ALL replaced the "COUNTRY" new() derived.
C8_Witness ==
  /\ op.name = "with_filter"
  /\ op.arg = "REGION"
  /\ ri.client.country = "ALL"
  /\ new(ri.client).resolution = "COUNTRY"
  /\ ri.resolution = "REGION"

\* C9: every successful get() or get_for() issues exactly one send_request(),
\* so m successful calls have issued m requests, and no call changes the
\* RegionInterest's client or resolution.
C9_OneRequestPerCall ==
  [][calls' = calls + 1 =>
       /\ ri' = ri
       /\ outcome' = "ok" => requests' = requests + 1
       /\ pc' = "ri" => requests' = calls']_vars

\* Two calls succeeded, with two requests.
C9_Witness ==
  /\ IsCall
  /\ outcome = "ok"
  /\ calls > 1
  /\ requests = calls

\* C10: get_for looks the keyword up before the request: for an unregistered
\* keyword it panics with no send_request() made, and for a keyword registered
\* more than once it uses the slot of the first occurrence.
C10_LookupPrecedesRequest ==
  [][(calls' = calls + 1 /\ op'.name = "get_for") =>
       /\ op'.arg \notin Range(K) =>
            /\ requests' = requests
            /\ outcome' = "panic"
            /\ error' = "KeywordNotSet"
       /\ (op'.arg \in Range(K) /\ outcome' = "ok") =>
            result' = Data(response', FirstAt(op'.arg) + 2)]_vars

\* After a call that made its request, get_for of an unregistered keyword
\* panicked on a client whose request would have been answered, without one
\* more request.
C10_Witness ==
  /\ op.name = "get_for"
  /\ op.arg \notin Range(K)
  /\ RequestValid(ri)
  /\ outcome = "panic"
  /\ calls > 1
  /\ requests = calls - 1

====
